---- MODULE Spec2Model ----
(***************************************************************************)
(* A model of src/net.py: GeneralGraphLayer (a message-passing layer),     *)
(* RecurrentGraphNeuralNet (layer + prediction head) and DeepSnapWrapper   *)
(* (batch adapter).                                                        *)
(*                                                                         *)
(* Tensors are modelled over the integers: a 2-D tensor is a sequence of   *)
(* rows, a row is a sequence of numbers, node n (0-based, as in            *)
(* edge_index) is row n+1.  edge_index is <<sources, targets>>, the two    *)
(* rows of the (2, num_edges) tensor.                                      *)
(*                                                                         *)
(* A Python object is a record whose DOMAIN is the set of attributes that  *)
(* have been assigned; reading an attribute outside the DOMAIN raises      *)
(* AttributeError.  Every torch.nn.Module object carries the field         *)
(* modinit: whether torch.nn.Module.__init__ has run on it.                *)
(*                                                                         *)
(* Exceptions are recorded by kind and cause:                              *)
(*   "AttributeError: <name>"  reading the attribute <name>, never set     *)
(*   "AttributeError: Module.__init__ not called"  torch.nn.Module         *)
(*                      refusing a sub-module or a call on an object whose *)
(*                      Module.__init__ has not run                        *)
(*   "TypeError: out_channels"  a keyword argument given twice             *)
(*   "ShapeMismatch"    torch RuntimeError, operand shapes do not match    *)
(*   "IndexOutOfRange"  torch RuntimeError/IndexError, index out of range  *)
(***************************************************************************)
EXTENDS Integers, Sequences, FiniteSets, TLC

VARIABLES layer, model, adapter, call

vars == <<layer, model, adapter, call>>

\* ------------------------------------------------------------------------
\* Options and outcomes
\* ------------------------------------------------------------------------
None == <<>>
Some(v) == <<v>>
Val(o) == o[1]

Ok(v) == [err |-> "none", val |-> Some(v)]
Raise(e) == [err |-> e, val |-> None]

\* ------------------------------------------------------------------------
\* Bounds and input sets
\* ------------------------------------------------------------------------
\* longest edge list explored
MaxEdges == 2

\* outcomes of the random parameter initialisation that are explored
Seeds == {1, 2}

\* (x, u) pairs given to a step; in_channels = node_channels = 2 throughout
StepInputs ==
  { [x |-> << <<1, 0>>, <<0, 1>>, <<1, 1>> >>, u |-> << <<0, 0>>, <<0, 0>>, <<0, 0>> >>],
    [x |-> << <<1, 1>> >>,                     u |-> << <<2, 2>> >>],
    [x |-> << <<1>> >>,                        u |-> << <<2, 2>> >>],
    [x |-> << <<1, -1>> >>,                    u |-> << <<2>> >>] }

\* ------------------------------------------------------------------------
\* Row and matrix arithmetic
\* ------------------------------------------------------------------------
ZeroRow(w) == [i \in 1..w |-> 0]

AddRow(a, b) == [i \in 1..Len(a) |-> a[i] + b[i]]

RECURSIVE DotTo(_, _, _)
DotTo(a, b, k) == IF k = 0 THEN 0 ELSE DotTo(a, b, k - 1) + a[k] * b[k]

Dot(a, b) == DotTo(a, b, Len(a))

Width(m) == IF m = <<>> THEN 0 ELSE Len(m[1])

RECURSIVE MaxOf(_, _)
MaxOf(s, k) == IF k = 0 THEN -1
               ELSE LET r == MaxOf(s, k - 1) IN IF s[k] > r THEN s[k] ELSE r

\* edge lists over nodes 0..n-1, plus the two edges that touch the first
\* index outside the range (n) as a source and as a target
EdgePairs(n) == ((0..(n - 1)) \X (0..(n - 1))) \cup {<<n, 0>>, <<0, n>>}

PairSeqs(n) == UNION { [1..k -> EdgePairs(n)] : k \in 0..MaxEdges }

ToEdgeIndex(ps) == << [k \in 1..Len(ps) |-> ps[k][1]], [k \in 1..Len(ps) |-> ps[k][2]] >>

EdgeIndexes(n) == { ToEdgeIndex(ps) : ps \in PairSeqs(n) }

NumEdges(edge_index) == Len(edge_index[1])

\* ------------------------------------------------------------------------
\* Library primitives the source calls
\* ------------------------------------------------------------------------
\* the weight matrix (out_features rows of in_features entries) and the bias a
\* random initialisation produces, one outcome per seed
DrawWeight(seed, out_features, in_features) ==
  [o \in 1..out_features |-> [i \in 1..in_features |->
      IF seed = 1 THEN (IF o = i THEN 1 ELSE 0) ELSE (IF o = i THEN 2 ELSE -1)]]

DrawBias(seed, out_features) ==
  [o \in 1..out_features |-> IF seed = 1 THEN 0 ELSE o]

\* torch.nn.Linear(in_features, out_features, bias)
nn_Linear(in_features, out_features, bias, seed) ==
  [in_features |-> in_features, out_features |-> out_features,
   weight |-> DrawWeight(seed, out_features, in_features),
   bias |-> IF bias THEN DrawBias(seed, out_features) ELSE None]

\* torch.nn.Linear.forward: x W^T + b
Linear_forward(lin, x) ==
  IF \E n \in 1..Len(x) : Len(x[n]) # lin.in_features
  THEN Raise("ShapeMismatch")
  ELSE Ok([n \in 1..Len(x) |-> [o \in 1..lin.out_features |->
             Dot(x[n], lin.weight[o]) + (IF lin.bias = None THEN 0 ELSE lin.bias[o])]])

\* elementwise nonlinearity
Activation(fn, x) ==
  [n \in 1..Len(x) |-> [i \in 1..Len(x[n]) |->
      IF fn = "relu" /\ x[n][i] < 0 THEN 0 ELSE x[n][i]]]

\* torch_scatter.scatter(..., reduce="sum") accumulates inputs[k] into row
\* index[k] of the output, edge by edge
RECURSIVE ScatterSum(_, _, _, _)
ScatterSum(out, inputs, index, k) ==
  IF k > Len(index) THEN out
  ELSE ScatterSum([out EXCEPT ![index[k] + 1] = AddRow(@, inputs[k])], inputs, index, k + 1)

\* a reduction that stores instead of adding (out[index] = inputs)
RECURSIVE ScatterAssign(_, _, _, _)
ScatterAssign(out, inputs, index, k) ==
  IF k > Len(index) THEN out
  ELSE ScatterAssign([out EXCEPT ![index[k] + 1] = inputs[k]], inputs, index, k + 1)

ScatterReduce(out, inputs, index, k) == ScatterSum(out, inputs, index, k)

\* torch_scatter.scatter(inputs, index, dim = 0, dim_size, reduce = "sum");
\* width is inputs.shape[1]; dim_size None means max(index) + 1 rows
scatter(inputs, index, width, dim_size) ==
  LET size == IF dim_size = None THEN MaxOf(index, Len(index)) + 1 ELSE Val(dim_size)
  IN IF \E k \in 1..Len(index) : index[k] \notin 0..(size - 1)
     THEN Raise("IndexOutOfRange")
     ELSE Ok(ScatterReduce([n \in 1..size |-> ZeroRow(width)], inputs, index, 1))

\* ------------------------------------------------------------------------
\* GeneralGraphLayer
\* ------------------------------------------------------------------------
GeneralGraphLayer_init(in_channels, out_channels, node_channels, activation_fn, node_dim, node_feature_bias, node_embedding_bias, seedPhi, seedW) ==
  [modinit |-> TRUE,
   phi |-> nn_Linear(node_channels, out_channels, TRUE, seedPhi),
   W |-> nn_Linear(in_channels, out_channels, TRUE, seedW),
   activation_fn |-> activation_fn,
   node_dim |-> node_dim]

message(x_j) == x_j

\* an aggregate that does not hand dim_size on to the reduction
aggregate_without_dim_size(self, inputs, index, width, dim_size) ==
  scatter(inputs, index, width, None)

aggregate(self, inputs, index, width, dim_size) ==
  scatter(inputs, index, width, dim_size)

\* MessagePassing.propagate(edge_index, x = (x, x)): gather the source rows,
\* message, aggregate at the targets, update (the identity)
propagate(self, edge_index, x) ==
  LET src == edge_index[1]
      tgt == edge_index[2]
  IN IF \E k \in 1..Len(src) : src[k] \notin 0..(Len(x) - 1)
     THEN Raise("IndexOutOfRange")
     ELSE aggregate(self, message([k \in 1..Len(src) |-> x[src[k] + 1]]), tgt,
                    Width(x), Some(Len(x)))

\* lines 70-74, up to the first statement that raises
LayerStepOutcome(self, x, u, edge_index) ==
  LET h == Linear_forward(self.W, x)
  IN IF h.err # "none" THEN Raise(h.err)
     ELSE LET p == propagate(self, edge_index, Val(h.val))
          IN IF p.err # "none" THEN Raise(p.err)
             ELSE IF "U" \notin DOMAIN self THEN Raise("AttributeError: U")
             ELSE LET f == Linear_forward(self.U, u)
                  IN IF f.err # "none" THEN Raise(f.err)
                     ELSE IF Len(Val(f.val)) # Len(Val(p.val)) THEN Raise("ShapeMismatch")
                     ELSE Ok(Activation(self.activation_fn,
                               [n \in 1..Len(Val(p.val)) |->
                                   AddRow(Val(p.val)[n], Val(f.val)[n])]))

\* a forward that allocates the hidden-state map anew on every call
GeneralGraphLayer_forward_realloc(self, x, u, edge_index) ==
  LET r == LayerStepOutcome(self, x, u, edge_index)
  IN [err |-> r.err, val |-> r.val,
      self |-> [self EXCEPT !.W = nn_Linear(self.W.in_features, self.W.out_features,
                                            TRUE, 2)]]

\* the outcome of forward and the object after it
GeneralGraphLayer_forward(self, x, u, edge_index) ==
  LET r == LayerStepOutcome(self, x, u, edge_index)
  IN [err |-> r.err, val |-> r.val, self |-> self]

\* kaiming_uniform_ / uniform_ re-draw a tensor in place
GeneralGraphLayer_reset_parameters(self, seedPhi, seedW) ==
  IF "weights" \notin DOMAIN self.phi
  THEN [err |-> "AttributeError: weights", self |-> self]
  ELSE LET s1 == [self EXCEPT !.phi.weights =
                     DrawWeight(seedPhi, self.phi.out_features, self.phi.in_features)]
       IN IF "weights" \notin DOMAIN self.W
          THEN [err |-> "AttributeError: weights", self |-> s1]
          ELSE LET s2 == [s1 EXCEPT !.W.weights =
                             DrawWeight(seedW, self.W.out_features, self.W.in_features)]
               IN IF "node_feature_bias" \notin DOMAIN self
                  THEN [err |-> "AttributeError: node_feature_bias", self |-> s2]
                  ELSE LET s3 == IF s2.node_feature_bias
                                 THEN [s2 EXCEPT !.phi.bias = DrawBias(seedPhi, self.phi.out_features)]
                                 ELSE s2
                       IN IF "node_embedding_bias" \notin DOMAIN self
                          THEN [err |-> "AttributeError: node_embedding_bias", self |-> s3]
                          ELSE [err |-> "none",
                                self |-> IF s3.node_embedding_bias
                                         THEN [s3 EXCEPT !.W.bias = DrawBias(seedW, self.W.out_features)]
                                         ELSE s3]

\* torch.nn.Module.__call__ needs the hook tables Module.__init__ creates
Module_call(self, outcome) ==
  IF ~self.modinit
  THEN [err |-> "AttributeError: Module.__init__ not called", val |-> None, self |-> self]
  ELSE outcome

\* torch.nn.Module.__setattr__: a Module-valued attribute needs the
\* _modules table Module.__init__ creates
Module_setattr(self, name, value, isModule) ==
  IF isModule /\ ~self.modinit
  THEN [err |-> "AttributeError: Module.__init__ not called", self |-> self]
  ELSE [err |-> "none",
        self |-> [f \in (DOMAIN self) \cup {name} |-> IF f = name THEN value ELSE self[f]]]

\* torch.nn.Linear.reset_parameters re-draws weight and bias in place
Linear_reset_parameters(lin, seed) ==
  [lin EXCEPT !.weight = DrawWeight(seed, lin.out_features, lin.in_features),
              !.bias = IF lin.bias = None THEN None ELSE DrawBias(seed, lin.out_features)]

\* ------------------------------------------------------------------------
\* RecurrentGraphNeuralNet
\* ------------------------------------------------------------------------
\* keyword arguments a caller may add; None: not given
NoKwargs == [out_channels |-> None, node_feature_bias |-> None]

KwargsInputs ==
  { NoKwargs,
    [NoKwargs EXCEPT !.out_channels = Some(2)],
    [NoKwargs EXCEPT !.out_channels = Some(3)],
    [NoKwargs EXCEPT !.node_feature_bias = Some(FALSE)] }

\* explicit keywords silently replaced by the caller's
GraphLayerArgs_kwargs_override(hidden_channels, node_channels, kwargs) ==
  Ok([in_channels |-> hidden_channels,
      out_channels |-> IF kwargs.out_channels # None THEN Val(kwargs.out_channels)
                       ELSE hidden_channels,
      node_channels |-> node_channels,
      node_feature_bias |-> IF kwargs.node_feature_bias # None
                            THEN Val(kwargs.node_feature_bias) ELSE TRUE])

\* the argument binding of GeneralGraphLayer(in_channels = hidden_channels,
\* out_channels = hidden_channels, node_channels = node_channels, **kwargs):
\* a keyword given twice is a TypeError
GraphLayerArgs(hidden_channels, node_channels, kwargs) ==
  IF kwargs.out_channels # None THEN Raise("TypeError: out_channels")
  ELSE Ok([in_channels |-> hidden_channels,
           out_channels |-> hidden_channels,
           node_channels |-> node_channels,
           node_feature_bias |-> IF kwargs.node_feature_bias # None
                                 THEN Val(kwargs.node_feature_bias) ELSE TRUE])

\* __init__ never calls Module.__init__; made is the layer object the
\* constructor built before it assigned it
RecurrentGraphNeuralNet_init(node_channels, hidden_channels, prediction_channels, kwargs, seedPhi, seedW, seedHead) ==
  LET self0 == [modinit |-> FALSE]
      a == GraphLayerArgs(hidden_channels, node_channels, kwargs)
  IN IF a.err # "none" THEN [err |-> a.err, self |-> self0, made |-> None]
     ELSE LET g == GeneralGraphLayer_init(Val(a.val).in_channels, Val(a.val).out_channels,
                                          Val(a.val).node_channels, "relu", 0,
                                          Val(a.val).node_feature_bias, TRUE,
                                          seedPhi, seedW)
              s1 == Module_setattr(self0, "graph_layer", g, TRUE)
          IN IF s1.err # "none" THEN [err |-> s1.err, self |-> s1.self, made |-> Some(g)]
             ELSE LET s2 == Module_setattr(s1.self, "prediction_head",
                                 nn_Linear(hidden_channels, prediction_channels, TRUE, seedHead),
                                 TRUE)
                  IN [err |-> s2.err, self |-> s2.self, made |-> Some(g)]

RecurrentGraphNeuralNet_reset_parameters(self, seedPhi, seedW, seedHead) ==
  IF "graph_layer" \notin DOMAIN self
  THEN [err |-> "AttributeError: graph_layer", self |-> self]
  ELSE LET r == GeneralGraphLayer_reset_parameters(self.graph_layer, seedPhi, seedW)
           s1 == [self EXCEPT !.graph_layer = r.self]
       IN IF r.err # "none" THEN [err |-> r.err, self |-> s1]
          ELSE IF "prediction_head" \notin DOMAIN self
          THEN [err |-> "AttributeError: prediction_head", self |-> s1]
          ELSE [err |-> "none",
                self |-> [s1 EXCEPT !.prediction_head =
                             Linear_reset_parameters(self.prediction_head, seedHead)]]

RecurrentGraphNeuralNet_forward(self, x, u, edge_index) ==
  IF "graph_layer" \notin DOMAIN self
  THEN [err |-> "AttributeError: graph_layer", val |-> None, self |-> self]
  ELSE LET r == Module_call(self.graph_layer,
                   GeneralGraphLayer_forward(self.graph_layer, x, u, edge_index))
           s1 == [self EXCEPT !.graph_layer = r.self]
       IN IF r.err # "none" THEN [err |-> r.err, val |-> None, self |-> s1]
          ELSE IF "prediction_head" \notin DOMAIN self
          THEN [err |-> "AttributeError: prediction_head", val |-> None, self |-> s1]
          ELSE LET y == Linear_forward(self.prediction_head, Val(r.val))
               IN IF y.err # "none" THEN [err |-> y.err, val |-> None, self |-> s1]
                  ELSE [err |-> "none", val |-> Some([x |-> Val(r.val), y |-> Val(y.val)]),
                        self |-> s1]

\* ------------------------------------------------------------------------
\* DeepSnapWrapper
\* ------------------------------------------------------------------------
\* objects are held by reference: "layer" and "model" name the two objects
\* of the state; heap maps each name to the object
Heap == [layer |-> layer, model |-> model]

\* what calling the object named ref with (x, u, edge_index) does
CallModel(heap, ref, x, u, edge_index) ==
  LET target == Val(heap[ref])
  IN Module_call(target,
       IF ref = "layer" THEN GeneralGraphLayer_forward(target, x, u, edge_index)
       ELSE RecurrentGraphNeuralNet_forward(target, x, u, edge_index))

\* __init__ never calls Module.__init__, and model is a torch.nn.Module
DeepSnapWrapper_init(ref) ==
  Module_setattr([modinit |-> FALSE], "model", ref, TRUE)

DeepSnapWrapper_reset_parameters(self, heap, seedPhi, seedW, seedHead) ==
  IF "model" \notin DOMAIN self THEN [err |-> "AttributeError: model", heap |-> heap]
  ELSE LET target == Val(heap[self.model])
           r == IF self.model = "layer"
                THEN GeneralGraphLayer_reset_parameters(target, seedPhi, seedW)
                ELSE RecurrentGraphNeuralNet_reset_parameters(target, seedPhi, seedW, seedHead)
       IN [err |-> r.err, heap |-> [heap EXCEPT ![self.model] = Some(r.self)]]

DeepSnapWrapper_forward(self, heap, batch) ==
  IF "model" \notin DOMAIN self
  THEN [err |-> "AttributeError: model", val |-> None, heap |-> heap]
  ELSE LET r == CallModel(heap, self.model, batch.node_embedding, batch.node_feature,
                          batch.edge_index)
       IN [err |-> r.err, val |-> r.val, heap |-> [heap EXCEPT ![self.model] = Some(r.self)]]

\* ------------------------------------------------------------------------
\* State machine.  layer, model and adapter hold None or Some(object); an
\* object whose constructor raised is left as that constructor left it.
\* call is the record of the call in progress at the caller: operation,
\* arguments, exception kind ("none": returned normally) and return value.
\* Calls are synchronous and one at a time: the caller takes the outcome
\* (Return) before it makes the next call.
\* ------------------------------------------------------------------------
Idle == [op |-> "none", args |-> <<>>, err |-> "none", val |-> None, made |-> None]

Called(op, args, err, val) == [op |-> op, args |-> args, err |-> err, val |-> val, made |-> None]

Init ==
  /\ layer = None
  /\ model = None
  /\ adapter = None
  /\ call = Idle

\* layer = GeneralGraphLayer(2, 2, 2, activation_fn, 0, node_feature_bias, node_embedding_bias)
NewLayer ==
  /\ call.op = "none"
  /\ layer = None
  /\ \E act \in {"relu", "identity"}, nfb \in BOOLEAN, neb \in BOOLEAN,
        sp \in Seeds, sw \in Seeds :
       /\ layer' = Some(GeneralGraphLayer_init(2, 2, 2, act, 0, nfb, neb, sp, sw))
       /\ call' = Called("NewLayer",
                         [in_channels |-> 2, out_channels |-> 2, node_channels |-> 2,
                          activation_fn |-> act, node_feature_bias |-> nfb,
                          node_embedding_bias |-> neb],
                         "none", None)
  /\ UNCHANGED <<model, adapter>>

\* layer.reset_parameters()
LayerReset ==
  /\ call.op = "none"
  /\ layer # None
  /\ \E sp \in Seeds, sw \in Seeds :
       LET r == GeneralGraphLayer_reset_parameters(Val(layer), sp, sw)
       IN /\ layer' = Some(r.self)
          /\ call' = Called("LayerReset", <<>>, r.err, None)
  /\ UNCHANGED <<model, adapter>>

\* layer(x, u, edge_index)
LayerForward ==
  /\ call.op = "none"
  /\ layer # None
  /\ \E inp \in StepInputs :
       \E e \in EdgeIndexes(Len(inp.x)) :
         LET r == Module_call(Val(layer),
                              GeneralGraphLayer_forward(Val(layer), inp.x, inp.u, e))
         IN /\ layer' = Some(r.self)
            /\ call' = Called("LayerForward", [x |-> inp.x, u |-> inp.u, edge_index |-> e],
                              r.err, r.val)
  /\ UNCHANGED <<model, adapter>>

\* layer.propagate(edge_index, x = (x, x)), the call of line 71
LayerPropagate ==
  /\ call.op = "none"
  /\ layer # None
  /\ \E x \in { inp.x : inp \in StepInputs } :
       \E e \in EdgeIndexes(Len(x)) :
         LET r == propagate(Val(layer), e, x)
         IN call' = Called("LayerPropagate", [x |-> x, edge_index |-> e], r.err, r.val)
  /\ UNCHANGED <<layer, model, adapter>>

\* model = RecurrentGraphNeuralNet(2, 2, 1, **kwargs)
NewModel ==
  /\ call.op = "none"
  /\ model = None
  /\ \E kw \in KwargsInputs, sp \in Seeds, sw \in Seeds, sh \in Seeds :
       LET r == RecurrentGraphNeuralNet_init(2, 2, 1, kw, sp, sw, sh)
       IN /\ model' = Some(r.self)
          /\ call' = [Called("NewModel",
                             [node_channels |-> 2, hidden_channels |-> 2,
                              prediction_channels |-> 1, kwargs |-> kw],
                             r.err, None) EXCEPT !.made = r.made]
  /\ UNCHANGED <<layer, adapter>>

\* model.reset_parameters()
ModelReset ==
  /\ call.op = "none"
  /\ model # None
  /\ \E sp \in Seeds, sw \in Seeds, sh \in Seeds :
       LET r == RecurrentGraphNeuralNet_reset_parameters(Val(model), sp, sw, sh)
       IN /\ model' = Some(r.self)
          /\ call' = Called("ModelReset", <<>>, r.err, None)
  /\ UNCHANGED <<layer, adapter>>

\* model(x, u, edge_index)
ModelForward ==
  /\ call.op = "none"
  /\ model # None
  /\ \E inp \in StepInputs :
       \E e \in EdgeIndexes(Len(inp.x)) :
         LET r == Module_call(Val(model),
                              RecurrentGraphNeuralNet_forward(Val(model), inp.x, inp.u, e))
         IN /\ model' = Some(r.self)
            /\ call' = Called("ModelForward", [x |-> inp.x, u |-> inp.u, edge_index |-> e],
                              r.err, r.val)
  /\ UNCHANGED <<layer, adapter>>

\* adapter = DeepSnapWrapper(layer) or DeepSnapWrapper(model); given is the
\* constructor's argument
AdapterInit ==
  /\ call.op = "none"
  /\ adapter = None
  /\ \E ref \in {"layer", "model"} :
       /\ Heap[ref] # None
       /\ LET r == DeepSnapWrapper_init(ref)
          IN /\ adapter' = Some([obj |-> r.self, given |-> ref])
             /\ call' = Called("AdapterInit", [model |-> ref], r.err, None)
  /\ UNCHANGED <<layer, model>>

\* adapter.reset_parameters()
AdapterReset ==
  /\ call.op = "none"
  /\ adapter # None
  /\ \E sp \in Seeds, sw \in Seeds, sh \in Seeds :
       LET r == DeepSnapWrapper_reset_parameters(Val(adapter).obj, Heap, sp, sw, sh)
       IN /\ layer' = r.heap.layer
          /\ model' = r.heap.model
          /\ call' = Called("AdapterReset", <<>>, r.err, None)
  /\ UNCHANGED adapter

\* adapter(batch)
AdapterForward ==
  /\ call.op = "none"
  /\ adapter # None
  /\ \E inp \in StepInputs :
       \E e \in EdgeIndexes(Len(inp.x)) :
         LET batch == [node_embedding |-> inp.x, node_feature |-> inp.u, edge_index |-> e]
             r == IF ~Val(adapter).obj.modinit
                  THEN [err |-> "AttributeError: Module.__init__ not called", val |-> None,
                        heap |-> Heap]
                  ELSE DeepSnapWrapper_forward(Val(adapter).obj, Heap, batch)
         IN /\ layer' = r.heap.layer
            /\ model' = r.heap.model
            /\ call' = Called("AdapterForward", [batch |-> batch], r.err, r.val)
  /\ UNCHANGED adapter

\* the caller takes the outcome of the call
Return ==
  /\ call.op # "none"
  /\ call' = Idle
  /\ UNCHANGED <<layer, model, adapter>>

Next ==
  \/ NewLayer
  \/ LayerReset
  \/ LayerForward
  \/ LayerPropagate
  \/ NewModel
  \/ ModelReset
  \/ ModelForward
  \/ AdapterInit
  \/ AdapterReset
  \/ AdapterForward
  \/ Return

Spec == Init /\ [][Next]_vars

\* ------------------------------------------------------------------------
\* Properties
\* ------------------------------------------------------------------------
ValidEdges(edge_index, n) ==
  \A k \in 1..NumEdges(edge_index) :
    edge_index[1][k] \in 0..(n - 1) /\ edge_index[2][k] \in 0..(n - 1)

\* x, u and edge_index fit the channel sizes the layer was built with
ValidStep(self, a) ==
  /\ Width(a.x) = self.W.in_features
  /\ Width(a.u) = self.phi.in_features
  /\ Len(a.u) = Len(a.x)
  /\ ValidEdges(a.edge_index, Len(a.x))

\* the sum of h[s] over the first k edges (s -> t), with multiplicity
RECURSIVE IncomingSum(_, _, _, _)
IncomingSum(h, edge_index, t, k) ==
  IF k = 0 THEN ZeroRow(Width(h))
  ELSE AddRow(IncomingSum(h, edge_index, t, k - 1),
              IF edge_index[2][k] = t THEN h[edge_index[1][k] + 1] ELSE ZeroRow(Width(h)))

\* activation( sum over edges (s -> t) of (W x)[s] + phi(u)[t] ) for every node t
StepFormula(self, a) ==
  LET h == Val(Linear_forward(self.W, a.x).val)
      f == Val(Linear_forward(self.phi, a.u).val)
  IN Activation(self.activation_fn,
       [n \in 1..Len(a.x) |->
          AddRow(IncomingSum(h, a.edge_index, n - 1, NumEdges(a.edge_index)), f[n])])

PermuteEdges(edge_index, p) ==
  << [k \in 1..NumEdges(edge_index) |-> edge_index[1][p[k]]],
     [k \in 1..NumEdges(edge_index) |-> edge_index[2][p[k]]] >>

ModelConstructed ==
  /\ model # None
  /\ Val(model).modinit
  /\ {"graph_layer", "prediction_head"} \subseteq DOMAIN Val(model)

AdapterConstructed ==
  /\ adapter # None
  /\ Val(adapter).obj.modinit
  /\ "model" \in DOMAIN Val(adapter).obj

\* C1: on every valid input the layer's step returns, for each node t,
\* activation(sum over the edges (s -> t) of (W x)[s] + phi(u)[t]).
C1_StepComputesFormula ==
  (call.op = "LayerForward" /\ ValidStep(Val(layer), call.args))
    => /\ call.err = "none"
       /\ call.val = Some(StepFormula(Val(layer), call.args))

\* C2: for valid edges the aggregation returns one row of out_channels entries
\* per node, and every reordering of the edge list gives the same result.
C2_AggregateOrderInvariant ==
  (call.op = "LayerPropagate" /\ ValidEdges(call.args.edge_index, Len(call.args.x)))
    => /\ call.err = "none"
       /\ Len(Val(call.val)) = Len(call.args.x)
       /\ \A n \in 1..Len(call.args.x) : Len(Val(call.val)[n]) = Width(call.args.x)
       /\ \A p \in Permutations(1..NumEdges(call.args.edge_index)) :
            propagate(Val(layer), PermuteEdges(call.args.edge_index, p), call.args.x).val
              = call.val

\* two edges into the same node from sources with different rows have been aggregated
C2_Witness ==
  /\ call.op = "LayerPropagate"
  /\ call.err = "none"
  /\ NumEdges(call.args.edge_index) >= 2
  /\ call.args.edge_index[2][1] = call.args.edge_index[2][2]
  /\ call.args.x[call.args.edge_index[1][1] + 1] # call.args.x[call.args.edge_index[1][2] + 1]

\* C3: for valid edges every node that is the target of no edge has an
\* all-zero aggregated row, also with no edges and for the highest node.
C3_IsolatedNodeZero ==
  (call.op = "LayerPropagate" /\ ValidEdges(call.args.edge_index, Len(call.args.x)))
    => /\ call.err = "none"
       /\ \A n \in 0..(Len(call.args.x) - 1) :
            (\A k \in 1..NumEdges(call.args.edge_index) : call.args.edge_index[2][k] # n)
              => /\ n + 1 \in DOMAIN Val(call.val)
                 /\ Val(call.val)[n + 1] = ZeroRow(Width(call.args.x))

\* some edges were aggregated and the highest node is the target of none
C3_Witness ==
  /\ call.op = "LayerPropagate"
  /\ call.err = "none"
  /\ NumEdges(call.args.edge_index) >= 1
  /\ Len(call.args.x) >= 2
  /\ \A k \in 1..NumEdges(call.args.edge_index) :
       call.args.edge_index[2][k] < Len(call.args.x) - 1
  /\ Val(call.val)[Len(call.args.x)] = ZeroRow(Width(call.args.x))

\* C4: on a constructed component reset returns normally, and so does a
\* step on a valid input.
C4_ResetAndStepDoNotRaise ==
  /\ call.op = "LayerReset" => call.err = "none"
  /\ (call.op = "LayerForward" /\ ValidStep(Val(layer), call.args)) => call.err = "none"
  /\ (call.op = "ModelReset" /\ ModelConstructed) => call.err = "none"
  /\ (call.op = "AdapterReset" /\ AdapterConstructed) => call.err = "none"

\* C5: a step (the layer's, the model's or the adapter's) leaves every
\* object, and so every owned parameter, as it was before the call.
C5_StepLeavesParameters ==
  [][(call.op = "none" /\ call'.op \in {"LayerForward", "ModelForward", "AdapterForward"})
       => (layer' = layer /\ model' = model /\ adapter' = adapter)]_vars

\* a step of the layer has run on a valid input
C5_Witness ==
  /\ call.op = "LayerForward"
  /\ ValidStep(Val(layer), call.args)
  /\ NumEdges(call.args.edge_index) >= 1

\* C6: constructing the model with a layer output channel count other than
\* hidden_channels raises at construction and leaves no constructed model;
\* a layer the constructor builds has out_channels = hidden_channels.
C6_MismatchRejectedAtConstruction ==
  /\ call.op = "NewModel" =>
       /\ (/\ call.args.kwargs.out_channels # None
           /\ Val(call.args.kwargs.out_channels) # call.args.hidden_channels)
            => /\ call.err = "TypeError: out_channels"
               /\ call.made = None
               /\ ~ModelConstructed
       /\ call.made # None =>
            /\ Val(call.made).W.out_features = call.args.hidden_channels
            /\ Val(call.made).phi.out_features = call.args.hidden_channels
  /\ ModelConstructed =>
       Val(model).graph_layer.W.out_features = Val(model).prediction_head.in_features

\* a construction asking for 3 layer output channels with 2 hidden channels was refused
C6_Witness ==
  /\ call.op = "NewModel"
  /\ call.args.kwargs.out_channels = Some(3)
  /\ call.args.hidden_channels = 2
  /\ call.err # "none"

\* C7: the adapter's step on a batch has the outcome of calling the model it
\* was given with (node_embedding, node_feature, edge_index) of the batch.
C7_AdapterEqualsDirectCall ==
  call.op = "AdapterForward" =>
    LET b == call.args.batch
        d == CallModel(Heap, Val(adapter).given, b.node_embedding, b.node_feature,
                       b.edge_index)
    IN call.err = d.err /\ call.val = d.val

\* C8: the model's step returns (x', y), x' the layer's step result on the
\* same input and y the prediction head applied to x'; the only failures are
\* the layer's shape and index errors.
C8_ModelStepComposition ==
  call.op = "ModelForward" =>
    \/ call.err \in {"ShapeMismatch", "IndexOutOfRange"}
    \/ /\ call.err = "none"
       /\ ModelConstructed
       /\ LET l == GeneralGraphLayer_forward(Val(model).graph_layer, call.args.x,
                                             call.args.u, call.args.edge_index)
          IN /\ l.err = "none"
             /\ Val(call.val).x = Val(l.val)
             /\ Val(call.val).y =
                  Val(Linear_forward(Val(model).prediction_head, Val(l.val)).val)

\* C9: a step on an input with an out-of-range edge index or a wrong x or u
\* width ends in IndexOutOfRange or ShapeMismatch and returns nothing.
C9_InvalidStepFailsByKind ==
  (call.op = "LayerForward" /\ ~ValidStep(Val(layer), call.args))
    => /\ call.err \in {"IndexOutOfRange", "ShapeMismatch"}
       /\ call.val = None

\* C10: a layer built with node_feature_bias false has no bias in phi, and
\* one built with node_embedding_bias false has no bias in W.
C10_BiasFlagsHonoured ==
  call.op = "NewLayer" =>
    /\ ~call.args.node_feature_bias => Val(layer).phi.bias = None
    /\ ~call.args.node_embedding_bias => Val(layer).W.bias = None

====
